---- MODULE Spec2Model ----
(***************************************************************************)
(* A model of nlprule's pattern matcher (composition.rs: Composition,      *)
(* MatchGraph, the atoms) and of its rule-set merge and text patcher       *)
(* (rules.rs: Rules::suggest, correct).                                    *)
(*                                                                         *)
(* Indices are 0-based as in the Rust source; TLA+ sequences are 1-based,  *)
(* so element i of a Rust slice s is s[i + 1] here.                        *)
(***************************************************************************)
EXTENDS Integers, Sequences, FiniteSets, TLC

VARIABLES
    \* Composition::apply (composition.rs)
    parts,          \* self.parts
    tokens,         \* the token slice
    start,          \* the start argument
    position,       \* let mut position
    cur_count,      \* let mut cur_count
    cur_atom_idx,   \* let mut cur_atom_idx
    graph,          \* let mut graph
    is_match,       \* let mut is_match
    result,         \* what apply returns: "None", "Some" (then graph), "Panic"
    pc,             \* where apply is: "call", "loop", "post", "reconcile", "done"
                    \* ("idle" while another function is looked at, as for spc, cpc)
    \* MatchGraph::by_id (composition.rs)
    lookup,         \* the last by_id call: its id and the group index it returned
    \* Rules::suggest (rules.rs)
    rules,          \* self.rules, each with what its apply yields on the tokens
    text_chars,     \* tokens[0].text.chars().count(), the length of the mask
    produced,       \* the per-rule outputs, in the order the workers finished
    output,         \* let mut output
    sorted,         \* output as it is right after sort_by
    mask,           \* let mut mask
    spc,            \* where suggest is: "call", "eval", "done"
    \* correct (rules.rs)
    text,           \* the text argument, as a sequence of characters
    suggestions,    \* the suggestions argument
    offset,         \* let mut offset
    chars,          \* let mut chars
    next_sugg,      \* how many suggestions the for loop has taken
    cpc             \* where correct is: "call", "loop", "done", "panic"

applyVars == <<parts, tokens, start, position, cur_count, cur_atom_idx, graph,
               is_match, result, pc, lookup>>

suggestVars == <<rules, text_chars, produced, output, sorted, mask, spc>>

correctVars == <<text, suggestions, offset, chars, next_sugg, cpc>>

vars == <<applyVars, suggestVars, correctVars>>

----------------------------------------------------------------------------
(* Bounds of the model.                                                    *)

\* The longest Composition.
MaxParts == 2

\* The longest token slice given to apply.
MaxTokens == 2

\* The largest quantifier max.
MaxRep == 2

Min(a, b) == IF a <= b THEN a ELSE b

None == [some |-> FALSE]

Some(v) == [some |-> TRUE, value |-> v]

----------------------------------------------------------------------------
(* Tokens.  A token carries its word text and its character span; the     *)
(* i-th token of a slice (0-based) spans [3i, 3i + 2): two characters and  *)
(* a separating blank, so that a token's end differs from the next start.  *)

Words == {"a", "b"}

MkToken(word, i) == [text |-> word, char_span |-> <<3 * i, 3 * i + 2>>]

MkTokens(ws) == [i \in 1..Len(ws) |-> MkToken(ws[i], i - 1)]

SeqsUpTo(S, n) == UNION {[1..k -> S] : k \in 0..n}

----------------------------------------------------------------------------
(* Quantifier, Part, Group, MatchGraph.                                    *)

\* Quantifier::new asserts max >= min.
Quantifiers == {q \in [min : 0..MaxRep, max : 0..MaxRep] : q.max >= q.min}

TrueAtom == [kind |-> "True"]

\* A MatchAtom whose access compares the token's text with a literal string.
TextAtom(s) == [kind |-> "Text", string |-> s]

Atoms == {TrueAtom, TextAtom("a")}

GroupEmpty == [char_start |-> 0, char_end |-> 0, tokens |-> <<>>]

\* empty_from_parts with current_id advanced for every part, visible or not.
empty_from_parts_IdPerPart(ps) ==
    LET vis == {i \in 1..Len(ps) : ps[i].visible}
    IN [groups |-> [i \in 1..Len(ps) |-> GroupEmpty],
        id_to_idx |-> [id \in {i - 1 : i \in vis} |-> id]]

\* MatchGraph::empty_from_parts: one empty group per part, and the capture
\* ids 0, 1, ... given to the visible parts in order.
empty_from_parts(ps) ==
    LET Loop[i \in 0..Len(ps)] ==
            IF i = 0
            THEN [groups |-> <<>>, id_to_idx |-> <<>>, current_id |-> 0]
            ELSE LET prev == Loop[i - 1] IN
                 [groups |-> Append(prev.groups, GroupEmpty),
                  id_to_idx |-> IF ps[i].visible
                                THEN prev.id_to_idx @@ (prev.current_id :> (i - 1))
                                ELSE prev.id_to_idx,
                  current_id |-> IF ps[i].visible
                                 THEN prev.current_id + 1
                                 ELSE prev.current_id]
    IN [groups |-> Loop[Len(ps)].groups, id_to_idx |-> Loop[Len(ps)].id_to_idx]

\* MatchGraph::get_index
get_index(g, id) ==
    IF id \in DOMAIN g.id_to_idx THEN Some(g.id_to_idx[id]) ELSE None

\* MatchGraph::by_id, as the index of the group it returns
by_id(g, id) ==
    LET idx == get_index(g, id) IN
    IF idx.some THEN Some(idx.value) ELSE None

\* Atom::is_match for the atoms of the model; position is 0-based.
AtomIsMatch(atom, toks, g, pos) ==
    CASE atom.kind = "True" -> TRUE
      [] atom.kind = "Text" -> toks[pos + 1].text = atom.string

MinOf(S) == CHOOSE x \in S : \A y \in S : x <= y

MaxOf(S) == CHOOSE x \in S : \A y \in S : x >= y

\* next_can_match with a window that stops before the next part of min > 0.
next_can_match_StopsBeforeRequired(ps, toks, g, pos, index) ==
    IF index = Len(ps) - 1
    THEN FALSE
    ELSE LET found == {k \in 0..(Len(ps) - index - 2) :
                           ps[index + 1 + k + 1].quantifier.min > 0}
             next_required_pos == IF found /= {}
                                  THEN index + 1 + MinOf(found)
                                  ELSE Len(ps)
         IN \E p \in (index + 1)..(next_required_pos - 1) :
                AtomIsMatch(ps[p + 1].atom, toks, g, pos)

\* Composition::next_can_match; index and position are 0-based.
next_can_match(ps, toks, g, pos, index) ==
    IF index = Len(ps) - 1
    THEN FALSE
    ELSE LET found == {k \in 0..(Len(ps) - index - 2) :
                           ps[index + 1 + k + 1].quantifier.min > 0}
             next_required_pos == IF found /= {}
                                  THEN index + 1 + MinOf(found) + 1
                                  ELSE Len(ps)
         IN \E p \in (index + 1)..(next_required_pos - 1) :
                AtomIsMatch(ps[p + 1].atom, toks, g, pos)

\* The max test off by one: cur_count > part.quantifier.max.
MaxReachedOffByOne(cnt, part) == cnt > part.quantifier.max

\* if cur_count >= part.quantifier.max
MaxReached(cnt, part) == cnt >= part.quantifier.max

\* The lookahead branch without its cur_count >= min test.
ShouldAdvanceIgnoresMin(ps, toks, g, pos, idx, cnt) ==
    next_can_match(ps, toks, g, pos, idx)

\* The first branch of apply's if/else-if chain: leave the current part
\* without consuming the token.
ShouldAdvance(ps, toks, g, pos, idx, cnt) ==
    /\ cnt >= ps[idx + 1].quantifier.min
    /\ next_can_match(ps, toks, g, pos, idx)

\* The fallback over the parts after the current one only.
FallbackFromNext(m, ps, idx) ==
    m \/ \A i \in (idx + 2)..Len(ps) : ps[i].quantifier.min = 0

\* is_match || self.parts[cur_atom_idx..].iter().all(|x| x.quantifier.min == 0)
Fallback(m, ps, idx) ==
    m \/ \A i \in (idx + 1)..Len(ps) : ps[i].quantifier.min = 0

NonEmptyGroups(groups) == {i \in 1..Len(groups) : groups[i].tokens /= <<>>}

Last(s) == s[Len(s)]

\* The first loop over graph.groups after the two find_map calls.
ForwardPass(groups, start0) ==
    LET Loop[i \in 0..Len(groups)] ==
            IF i = 0
            THEN [groups |-> groups, start |-> start0]
            ELSE LET prev == Loop[i - 1]
                     group == prev.groups[i]
                 IN IF group.tokens /= <<>>
                    THEN [groups |-> [prev.groups EXCEPT
                                         ![i].char_start = group.tokens[1].char_span[1],
                                         ![i].char_end = Last(group.tokens).char_span[2]],
                          start |-> Last(group.tokens).char_span[2]]
                    ELSE [groups |-> [prev.groups EXCEPT ![i].char_end = prev.start],
                          start |-> prev.start]
    IN Loop[Len(groups)].groups

\* The second loop, over graph.groups reversed.
BackwardPass(groups, end0) ==
    LET n == Len(groups)
        Loop[k \in 0..n] ==
            IF k = 0
            THEN [groups |-> groups, end |-> end0]
            ELSE LET prev == Loop[k - 1]
                     i == n - k + 1
                     group == prev.groups[i]
                 IN IF group.tokens /= <<>>
                    THEN [groups |-> prev.groups,
                          end |-> Last(group.tokens).char_span[1]]
                    ELSE [groups |-> [prev.groups EXCEPT ![i].char_start = prev.end],
                          end |-> prev.end]
    IN Loop[n].groups

\* The span reconciliation of a graph that holds at least one token.
Reconcile(groups) ==
    LET ne == NonEmptyGroups(groups)
        start0 == groups[MinOf(ne)].tokens[1].char_span[1]
        end0 == groups[MaxOf(ne)].tokens[1].char_span[2]
    IN BackwardPass(ForwardPass(groups, start0), end0)

----------------------------------------------------------------------------
(* Composition::apply, one action per pass through its loop, then the      *)
(* fallback and the reconciliation.                                        *)

Part(atom, quantifier, visible) ==
    [atom |-> atom, quantifier |-> quantifier, visible |-> visible]

ApplyParts == {Part(a, q, TRUE) : a \in Atoms, q \in Quantifiers}

\* The parts of the longer compositions: optional or mandatory, once or twice.
ChainParts == {Part(a, q, TRUE) : a \in Atoms, q \in [min : 0..1, max : 1..2]}

\* Every composition of up to MaxParts parts, and the chains of one part more.
Compositions ==
    SeqsUpTo(ApplyParts, MaxParts) \cup [1..(MaxParts + 1) -> ChainParts]

IdleGraph == [groups |-> <<>>, id_to_idx |-> <<>>]

SuggestIdle ==
    /\ rules = <<>>
    /\ text_chars = 0
    /\ produced = <<>>
    /\ output = <<>>
    /\ sorted = <<>>
    /\ mask = <<>>
    /\ spc = "idle"

CorrectIdle ==
    /\ text = <<>>
    /\ suggestions = <<>>
    /\ offset = 0
    /\ chars = <<>>
    /\ next_sugg = 0
    /\ cpc = "idle"

ApplyIdle ==
    /\ parts = <<>>
    /\ tokens = <<>>
    /\ start = 0
    /\ position = 0
    /\ cur_count = 0
    /\ cur_atom_idx = 0
    /\ graph = IdleGraph
    /\ is_match = FALSE
    /\ result = "Pending"
    /\ pc = "idle"
    /\ lookup = <<>>

InitApply ==
    /\ parts \in Compositions
    /\ \E ws \in SeqsUpTo(Words, MaxTokens) : tokens = MkTokens(ws)
    /\ start \in 0..Len(tokens)
    /\ position = 0
    /\ cur_count = 0
    /\ cur_atom_idx = 0
    /\ graph = IdleGraph
    /\ is_match = FALSE
    /\ result = "Pending"
    /\ pc = "call"
    /\ lookup = <<>>
    /\ SuggestIdle
    /\ CorrectIdle

\* Lines 377-383: the locals, and the empty graph.
ApplyBegin ==
    /\ pc = "call"
    /\ position' = start
    /\ cur_count' = 0
    /\ cur_atom_idx' = 0
    /\ graph' = empty_from_parts(parts)
    /\ pc' = "loop"
    /\ UNCHANGED <<parts, tokens, start, is_match, result, lookup>>
    /\ UNCHANGED <<suggestVars, correctVars>>

\* if cur_atom_idx >= self.parts.len() { break true; }
LoopPastEnd ==
    /\ pc = "loop"
    /\ cur_atom_idx >= Len(parts)
    /\ is_match' = TRUE
    /\ pc' = "post"
    /\ UNCHANGED <<parts, tokens, start, position, cur_count, cur_atom_idx,
                   graph, result, lookup>>
    /\ UNCHANGED <<suggestVars, correctVars>>

\* if cur_count >= part.quantifier.max { ... }
LoopMaxReached ==
    /\ pc = "loop"
    /\ cur_atom_idx < Len(parts)
    /\ MaxReached(cur_count, parts[cur_atom_idx + 1])
    /\ cur_atom_idx' = cur_atom_idx + 1
    /\ cur_count' = 0
    /\ IF cur_atom_idx + 1 >= Len(parts)
       THEN is_match' = FALSE /\ pc' = "post"
       ELSE UNCHANGED <<is_match, pc>>
    /\ UNCHANGED <<parts, tokens, start, position, graph, result, lookup>>
    /\ UNCHANGED <<suggestVars, correctVars>>

\* if position >= tokens.len() { break false; }
LoopOutOfTokens ==
    /\ pc = "loop"
    /\ cur_atom_idx < Len(parts)
    /\ ~MaxReached(cur_count, parts[cur_atom_idx + 1])
    /\ position >= Len(tokens)
    /\ is_match' = FALSE
    /\ pc' = "post"
    /\ UNCHANGED <<parts, tokens, start, position, cur_count, cur_atom_idx,
                   graph, result, lookup>>
    /\ UNCHANGED <<suggestVars, correctVars>>

InLoopBody ==
    /\ pc = "loop"
    /\ cur_atom_idx < Len(parts)
    /\ ~MaxReached(cur_count, parts[cur_atom_idx + 1])
    /\ position < Len(tokens)

\* if cur_count >= min && next_can_match(..) { cur_atom_idx += 1; cur_count = 0; }
LoopAdvance ==
    /\ InLoopBody
    /\ ShouldAdvance(parts, tokens, graph, position, cur_atom_idx, cur_count)
    /\ cur_atom_idx' = cur_atom_idx + 1
    /\ cur_count' = 0
    /\ UNCHANGED <<parts, tokens, start, position, graph, is_match, result, pc,
                   lookup>>
    /\ UNCHANGED <<suggestVars, correctVars>>

\* else if part.atom.is_match(..) { push the token; position += 1; cur_count += 1; }
LoopConsume ==
    /\ InLoopBody
    /\ ~ShouldAdvance(parts, tokens, graph, position, cur_atom_idx, cur_count)
    /\ AtomIsMatch(parts[cur_atom_idx + 1].atom, tokens, graph, position)
    /\ graph' = [graph EXCEPT !.groups[cur_atom_idx + 1].tokens =
                                  Append(@, tokens[position + 1])]
    /\ position' = position + 1
    /\ cur_count' = cur_count + 1
    /\ UNCHANGED <<parts, tokens, start, cur_atom_idx, is_match, result, pc,
                   lookup>>
    /\ UNCHANGED <<suggestVars, correctVars>>

\* else { break false; }
LoopMismatch ==
    /\ InLoopBody
    /\ ~ShouldAdvance(parts, tokens, graph, position, cur_atom_idx, cur_count)
    /\ ~AtomIsMatch(parts[cur_atom_idx + 1].atom, tokens, graph, position)
    /\ is_match' = FALSE
    /\ pc' = "post"
    /\ UNCHANGED <<parts, tokens, start, position, cur_count, cur_atom_idx,
                   graph, result, lookup>>
    /\ UNCHANGED <<suggestVars, correctVars>>

\* Lines 421-424: the fallback on the parts from cur_atom_idx on.
ApplyFallback ==
    /\ pc = "post"
    /\ is_match' = Fallback(is_match, parts, cur_atom_idx)
    /\ pc' = "reconcile"
    /\ UNCHANGED <<parts, tokens, start, position, cur_count, cur_atom_idx,
                   graph, result, lookup>>
    /\ UNCHANGED <<suggestVars, correctVars>>

\* Lines 426-473: None, or the reconciled graph, or the expect() that aborts.
ApplyReturn ==
    /\ pc = "reconcile"
    /\ IF ~is_match
       THEN result' = "None" /\ graph' = graph
       ELSE IF NonEmptyGroups(graph.groups) = {}
            THEN result' = "Panic" /\ graph' = graph
            ELSE /\ result' = "Some"
                 /\ graph' = [graph EXCEPT !.groups = Reconcile(graph.groups)]
    /\ pc' = "done"
    /\ UNCHANGED <<parts, tokens, start, position, cur_count, cur_atom_idx,
                   is_match, lookup>>
    /\ UNCHANGED <<suggestVars, correctVars>>

NextApply ==
    \/ ApplyBegin
    \/ LoopPastEnd
    \/ LoopMaxReached
    \/ LoopOutOfTokens
    \/ LoopAdvance
    \/ LoopConsume
    \/ LoopMismatch
    \/ ApplyFallback
    \/ ApplyReturn

SpecApply == InitApply /\ [][NextApply]_vars

----------------------------------------------------------------------------
(* The capture ids of a MatchGraph: apply builds the graph of a            *)
(* Composition whose parts are visible or not, and by_id is asked for ids. *)

\* The longest Composition whose capture ids are looked up.
MaxGraphParts == 4

GraphParts == {Part(TrueAtom, [min |-> 1, max |-> 1], v) : v \in BOOLEAN}

InitGraph ==
    /\ parts \in SeqsUpTo(GraphParts, MaxGraphParts)
    /\ tokens = <<>>
    /\ start = 0
    /\ position = 0
    /\ cur_count = 0
    /\ cur_atom_idx = 0
    /\ graph = IdleGraph
    /\ is_match = FALSE
    /\ result = "Pending"
    /\ pc = "call"
    /\ lookup = <<>>
    /\ SuggestIdle
    /\ CorrectIdle

\* A caller's (a back-reference matcher's) graph.by_id(id).
ById(id) ==
    /\ pc = "loop"
    /\ lookup' = <<[id |-> id, group |-> by_id(graph, id)]>>
    /\ UNCHANGED <<parts, tokens, start, position, cur_count, cur_atom_idx,
                   graph, is_match, result, pc>>
    /\ UNCHANGED <<suggestVars, correctVars>>

NextGraph ==
    \/ ApplyBegin
    \/ \E id \in 0..(MaxGraphParts + 1) : ById(id)

SpecGraph == InitGraph /\ [][NextGraph]_vars

----------------------------------------------------------------------------
(* Rules::suggest.  A rule is its on flag and the suggestions its apply    *)
(* yields on the given tokens; tokens[0].text is the whole text.           *)

\* The most rules of a rule set.
MaxRules == 2

\* The most suggestions one rule yields on one text.
MaxPerRule == 1

\* The longest text, in characters.
MaxTextLen == 2

Suggestion(source, s, e, replacements) ==
    [source |-> source, start |-> s, end |-> e, text |-> replacements]

\* The suggestions a rule may yield on a text of n characters: each covers
\* at least one character of it.
RuleSuggestions(n) ==
    {Suggestion("rule", r[1], r[2], <<"fix">>) :
        r \in {x \in (0..n) \X (0..n) : x[1] < x[2]}}

\* A rule that is off is never applied; what it would yield is the same for all.
RulesOn(n) ==
    {[on |-> TRUE, yields |-> y] : y \in SeqsUpTo(RuleSuggestions(n), MaxPerRule)}

RulesOff(n) ==
    {[on |-> FALSE, yields |-> <<Suggestion("rule", 0, n, <<"fix">>)>>]}

\* Each suggestion names the rule it comes from (Suggestion.source).
WithSource(rs) ==
    [i \in 1..Len(rs) |->
        [on |-> rs[i].on,
         yields |-> [j \in 1..Len(rs[i].yields) |->
                        [rs[i].yields[j] EXCEPT !.source = i]]]]

SentenceToken(n) == [text |-> [c \in 1..n |-> "c"], char_span |-> <<0, n>>]

InitSuggest ==
    /\ \E n \in 0..MaxTextLen :
          /\ tokens \in {<<>>, <<SentenceToken(n)>>}
          /\ \E rs \in SeqsUpTo(RulesOn(n) \cup RulesOff(n), MaxRules) :
                 rules = WithSource(rs)
    /\ produced = <<>>
    /\ output = <<>>
    /\ sorted = <<>>
    /\ mask = <<>>
    /\ spc = "call"
    /\ text_chars = 0
    /\ parts = <<>>
    /\ start = 0
    /\ position = 0
    /\ cur_count = 0
    /\ cur_atom_idx = 0
    /\ graph = IdleGraph
    /\ is_match = FALSE
    /\ result = "Pending"
    /\ pc = "idle"
    /\ lookup = <<>>
    /\ CorrectIdle

\* self.rules.maybe_par_iter().enumerate().filter(|(_, x)| x.on()): the rules
\* to evaluate, by index (1-based here); the workers take them in any order.
maybe_par_iter(rs) == {i \in 1..Len(rs) : rs[i].on}

\* The map closure: the suggestions of rule.apply, pushed in order.
RuleOutput(rule) == rule.yields

Flatten(ss) ==
    LET Loop[i \in 0..Len(ss)] ==
            IF i = 0 THEN <<>> ELSE Loop[i - 1] \o ss[i]
    IN Loop[Len(ss)]

\* A collect that takes the outputs in the order the workers finished.
CollectAsProduced(prod) == Flatten([j \in 1..Len(prod) |-> prod[j].output])

\* .flatten().collect(): the outputs in the order of the rules, whatever the
\* order the workers produced them in.
Collect(prod) ==
    LET idx == {prod[j].index : j \in 1..Len(prod)}
        OutputOf(i) == prod[CHOOSE j \in 1..Len(prod) : prod[j].index = i].output
        Loop[S \in SUBSET idx] ==
            IF S = {} THEN <<>> ELSE OutputOf(MinOf(S)) \o Loop[S \ {MinOf(S)}]
    IN Loop[idx]

\* output.sort_by(|a, b| a.start.cmp(&b.start)): a stable sort.
sort_by_start(s) ==
    LET Insert(t, x) ==
            LET k == Cardinality({j \in 1..Len(t) : t[j].start <= x.start})
            IN SubSeq(t, 1, k) \o <<x>> \o SubSeq(t, k + 1, Len(t))
        Loop[i \in 0..Len(s)] ==
            IF i = 0 THEN <<>> ELSE Insert(Loop[i - 1], s[i])
    IN Loop[Len(s)]

\* The mask test with any() in place of all().
RangeFreeAny(m, s) == \E c \in (s.start + 1)..s.end : ~m[c]

\* mask[suggestion.start..suggestion.end].iter().all(|x| !x)
RangeFree(m, s) == \A c \in (s.start + 1)..s.end : ~m[c]

\* output.retain(..) over a mask of n characters: what is kept, and the mask.
Retain(s, n) ==
    LET Loop[i \in 0..Len(s)] ==
            IF i = 0
            THEN [kept |-> <<>>, mask |-> [c \in 1..n |-> FALSE]]
            ELSE LET prev == Loop[i - 1] IN
                 IF RangeFree(prev.mask, s[i])
                 THEN [kept |-> Append(prev.kept, s[i]),
                       mask |-> [c \in 1..n |->
                                    prev.mask[c] \/ (s[i].start < c /\ c <= s[i].end)]]
                 ELSE prev
    IN Loop[Len(s)]

\* if tokens.is_empty() { return Vec::new(); }
SuggestEmpty ==
    /\ spc = "call"
    /\ tokens = <<>>
    /\ output' = <<>>
    /\ spc' = "done"
    /\ UNCHANGED <<rules, text_chars, produced, sorted, mask>>
    /\ UNCHANGED <<applyVars, correctVars>>

\* The rules are handed to the iterator.
SuggestBegin ==
    /\ spc = "call"
    /\ tokens /= <<>>
    /\ text_chars' = Len(tokens[1].text)
    /\ spc' = "eval"
    /\ UNCHANGED <<rules, produced, output, sorted, mask>>
    /\ UNCHANGED <<applyVars, correctVars>>

\* One worker finishes the rule of index i.
EvalRule(i) ==
    /\ spc = "eval"
    /\ i \in maybe_par_iter(rules)
    /\ \A j \in 1..Len(produced) : produced[j].index /= i
    /\ produced' = Append(produced, [index |-> i, output |-> RuleOutput(rules[i])])
    /\ UNCHANGED <<rules, text_chars, output, sorted, mask, spc>>
    /\ UNCHANGED <<applyVars, correctVars>>

\* All rules are done: collect, sort, retain, return.
SuggestMerge ==
    /\ spc = "eval"
    /\ Len(produced) = Cardinality(maybe_par_iter(rules))
    /\ sorted' = sort_by_start(Collect(produced))
    /\ output' = Retain(sorted', text_chars).kept
    /\ mask' = Retain(sorted', text_chars).mask
    /\ spc' = "done"
    /\ UNCHANGED <<rules, text_chars, produced>>
    /\ UNCHANGED <<applyVars, correctVars>>

NextSuggest ==
    \/ SuggestEmpty
    \/ SuggestBegin
    \/ \E i \in 1..MaxRules : EvalRule(i)
    \/ SuggestMerge

SpecSuggest == InitSuggest /\ [][NextSuggest]_vars

----------------------------------------------------------------------------
(* correct(text, suggestions), one action per pass through its for loop.   *)
(* A character is told apart by where it comes from: the n-th character of *)
(* the text, or the n-th character of a replacement.                       *)

\* The longest text given to correct, in characters.
MaxText == 3

\* The most suggestions given to correct.
MaxSuggestions == 2

\* The longest replacement text, in characters.
MaxReplacement == 2

TextOf(n) == [i \in 1..n |-> [from |-> "text", n |-> i]]

ReplacementOf(len) == [i \in 1..len |-> [from |-> "first", n |-> i]]

\* A second alternative, which correct never picks.
OtherReplacement == <<[from |-> "second", n |-> 1]>>

\* Any suggestions inside a text of n characters, in any order, overlapping or not.
CorrectSuggestions(n) ==
    {Suggestion("rule", r[1], r[2], <<ReplacementOf(len), OtherReplacement>>) :
        r \in {x \in (0..n) \X (0..n) : x[1] <= x[2]}, len \in 0..MaxReplacement}

InitCorrect ==
    /\ \E n \in 0..MaxText :
          /\ text = TextOf(n)
          /\ suggestions \in SeqsUpTo(CorrectSuggestions(n), MaxSuggestions)
    /\ offset = 0
    /\ chars = <<>>
    /\ next_sugg = 0
    /\ cpc = "call"
    /\ ApplyIdle
    /\ SuggestIdle

\* Vec::splice(lo..hi, replacement) on a vector where 0 <= lo <= hi <= len.
Splice(v, lo, hi, replacement) ==
    SubSeq(v, 1, lo) \o replacement \o SubSeq(v, hi + 1, Len(v))

\* let replacement: Vec<_> = suggestion.text[0].chars().collect();
FirstReplacement(suggestion) == suggestion.text[1]

\* The offset update without the length of the replaced span.
NextOffsetIgnoresSpan(off, suggestion) ==
    off + Len(FirstReplacement(suggestion))

\* offset + replacement.len() as isize - (suggestion.end - suggestion.start) as isize
NextOffset(off, suggestion) ==
    off + Len(FirstReplacement(suggestion)) - (suggestion.end - suggestion.start)

\* The range the splice is given is inside the vector.  A negative bound cast
\* to usize, a start after the end, or an end after the length makes splice abort.
SpliceRangeOk(v, lo, hi) == 0 <= lo /\ lo <= hi /\ hi <= Len(v)

\* let mut offset = 0; let mut chars = text.chars().collect();
CorrectBegin ==
    /\ cpc = "call"
    /\ offset' = 0
    /\ chars' = text
    /\ next_sugg' = 0
    /\ cpc' = "loop"
    /\ UNCHANGED <<text, suggestions>>
    /\ UNCHANGED <<applyVars, suggestVars>>

\* One pass of the for loop.
CorrectStep ==
    /\ cpc = "loop"
    /\ next_sugg < Len(suggestions)
    /\ LET suggestion == suggestions[next_sugg + 1]
           lo == suggestion.start + offset
           hi == suggestion.end + offset
       IN /\ SpliceRangeOk(chars, lo, hi)
          /\ chars' = Splice(chars, lo, hi, FirstReplacement(suggestion))
          /\ offset' = NextOffset(offset, suggestion)
    /\ next_sugg' = next_sugg + 1
    /\ UNCHANGED <<text, suggestions, cpc>>
    /\ UNCHANGED <<applyVars, suggestVars>>

\* The pass in which splice aborts on its range.
CorrectAbort ==
    /\ cpc = "loop"
    /\ next_sugg < Len(suggestions)
    /\ LET suggestion == suggestions[next_sugg + 1]
       IN ~SpliceRangeOk(chars, suggestion.start + offset, suggestion.end + offset)
    /\ cpc' = "panic"
    /\ UNCHANGED <<text, suggestions, offset, chars, next_sugg>>
    /\ UNCHANGED <<applyVars, suggestVars>>

\* chars.into_iter().collect()
CorrectReturn ==
    /\ cpc = "loop"
    /\ next_sugg = Len(suggestions)
    /\ cpc' = "done"
    /\ UNCHANGED <<text, suggestions, offset, chars, next_sugg>>
    /\ UNCHANGED <<applyVars, suggestVars>>

NextCorrect ==
    \/ CorrectBegin
    \/ CorrectStep
    \/ CorrectAbort
    \/ CorrectReturn

SpecCorrect == InitCorrect /\ [][NextCorrect]_vars

----------------------------------------------------------------------------
(* The properties.                                                         *)

Groups == graph.groups

Returned == pc = "done"

Matched == pc = "done" /\ result = "Some"

\* C1: a Composition of the single part {TrueAtom, [min, max]} applied at
\* start 0 to n >= min tokens returns Some(graph), and the part's group holds
\* exactly min(max, n) tokens.
C1_SingleTruePart ==
    (/\ Returned
     /\ Len(parts) = 1
     /\ parts[1].atom = TrueAtom
     /\ start = 0
     /\ Len(tokens) >= parts[1].quantifier.min)
    => /\ result = "Some"
       /\ Len(Groups[1].tokens) = Min(parts[1].quantifier.max, Len(tokens))

\* The 0-based indices of the visible parts.
VisibleParts(ps) == {i \in 0..(Len(ps) - 1) : ps[i + 1].visible}

\* The 0-based index of the j-th visible part, j counted from 0.
NthVisible(ps, j) ==
    CHOOSE i \in VisibleParts(ps) :
        Cardinality({v \in VisibleParts(ps) : v < i}) = j

Ids == 0..(MaxGraphParts + 1)

\* C5: a built MatchGraph has one group per part; the capture ids 0..k-1 go
\* to the k visible parts in left-to-right order; by_id is None for every
\* id >= k; no id resolves to an invisible part.
C5_CaptureIds ==
    pc = "loop" =>
        LET k == Cardinality(VisibleParts(parts)) IN
        /\ Len(Groups) = Len(parts)
        /\ DOMAIN graph.id_to_idx = 0..(k - 1)
        /\ \A id \in Ids :
              /\ id < k => /\ get_index(graph, id) = Some(NthVisible(parts, id))
                           /\ by_id(graph, id) = Some(NthVisible(parts, id))
              /\ id >= k => by_id(graph, id) = None
              /\ by_id(graph, id).some => parts[by_id(graph, id).value + 1].visible
        /\ \A c \in 1..Len(lookup) :
              lookup[c].group = IF lookup[c].id < k
                                THEN Some(NthVisible(parts, lookup[c].id))
                                ELSE None

\* An invisible part stands before a visible one, and by_id was asked for
\* the first id that no part has.
C5_Witness ==
    /\ pc = "loop"
    /\ \E i, j \in 1..Len(parts) : i < j /\ ~parts[i].visible /\ parts[j].visible
    /\ Len(lookup) = 1
    /\ lookup[1].id = Cardinality(VisibleParts(parts))
    /\ lookup[1].id < Len(parts)
    /\ lookup[1].group = None

\* C6: in a returned graph, a non-empty group spans [its first token's start,
\* its last token's end); an empty group after a non-empty one carries the
\* end of the nearest non-empty group before it; an empty group before a
\* non-empty one carries the start of the first token of the nearest
\* non-empty group after it.
C6_ReconciledSpans ==
    Matched =>
        \A i \in 1..Len(Groups) :
            LET group == Groups[i]
                before == {j \in NonEmptyGroups(Groups) : j < i}
                after == {j \in NonEmptyGroups(Groups) : j > i}
            IN IF group.tokens /= <<>>
               THEN /\ group.char_start = group.tokens[1].char_span[1]
                    /\ group.char_end = Last(group.tokens).char_span[2]
               ELSE /\ before /= {} =>
                          group.char_end =
                              Last(Groups[MaxOf(before)].tokens).char_span[2]
                    /\ after /= {} =>
                          group.char_start =
                              Groups[MinOf(after)].tokens[1].char_span[1]

\* Every part from the 0-based index k on has min == 0.
AllOptionalFrom(k) == ~\E i \in 1..Len(parts) : i > k /\ parts[i].quantifier.min > 0

\* C7 as claimed: for a non-empty Composition, apply returns a match exactly
\* when the scan stops at a part index from which every part has min == 0.
C7_MatchIffRestOptional ==
    (Returned /\ Len(parts) > 0) =>
        (result = "Some" <=> AllOptionalFrom(cur_atom_idx))

\* C7 as amended: for a non-empty Composition the scan always stops with
\* "no match" (max of the last part, no token left, or a mismatch); when
\* every part from the stop index on has min == 0, apply returns a match if
\* some group holds a token and aborts if none does; otherwise it returns
\* None, also when the part it stopped in had its min repetitions.
C7_MatchIffRestOptionalAndToken ==
    /\ (pc = "post" /\ Len(parts) > 0) =>
          /\ ~is_match
          /\ \/ cur_atom_idx = Len(parts)
             \/ position >= Len(tokens)
             \/ ~AtomIsMatch(parts[cur_atom_idx + 1].atom, tokens, graph, position)
    /\ (Returned /\ Len(parts) > 0) =>
          /\ result = "Some" <=>
                (AllOptionalFrom(cur_atom_idx) /\ NonEmptyGroups(Groups) /= {})
          /\ result = "Panic" <=>
                (AllOptionalFrom(cur_atom_idx) /\ NonEmptyGroups(Groups) = {})
          /\ result = "None" <=> ~AllOptionalFrom(cur_atom_idx)

\* apply returned None although the part it stopped in has min > 0 and had
\* consumed its min repetitions.
C7_Witness ==
    /\ Returned
    /\ result = "None"
    /\ cur_atom_idx < Len(parts)
    /\ parts[cur_atom_idx + 1].quantifier.min > 0
    /\ cur_count >= parts[cur_atom_idx + 1].quantifier.min
    /\ position < Len(tokens)

\* The last part of the lookahead window of part i (0-based): the first
\* part after i with min > 0, or the last part.
WindowEnd(i) ==
    LET required == {p \in (i + 1)..(Len(parts) - 1) : parts[p + 1].quantifier.min > 0}
    IN IF required /= {} THEN MinOf(required) ELSE Len(parts) - 1

WindowMatches(i) ==
    \E p \in (i + 1)..WindowEnd(i) :
        AtomIsMatch(parts[p + 1].atom, tokens, graph, position)

MovedOn ==
    /\ cur_atom_idx' = cur_atom_idx + 1
    /\ cur_count' = 0
    /\ position' = position
    /\ graph' = graph
    /\ pc' = "loop"

Consumed ==
    /\ cur_atom_idx' = cur_atom_idx
    /\ cur_count' = cur_count + 1
    /\ position' = position + 1
    /\ Groups'[cur_atom_idx + 1].tokens =
           Append(Groups[cur_atom_idx + 1].tokens, tokens[position + 1])
    /\ pc' = "loop"

\* C8: when the current part has min <= count < max and a token remains, the
\* scan moves to the next part without consuming iff the atom of a part in
\* the window i+1 .. j matches at the position (j the first later part with
\* min > 0, or the last part; never when i is the last part); otherwise the
\* current part's atom is tried on the token.
C8_Lookahead ==
    [][(/\ InLoopBody
        /\ cur_count >= parts[cur_atom_idx + 1].quantifier.min)
       => /\ MovedOn <=> WindowMatches(cur_atom_idx)
          /\ cur_atom_idx = Len(parts) - 1 => ~MovedOn
          /\ ~WindowMatches(cur_atom_idx) =>
                IF AtomIsMatch(parts[cur_atom_idx + 1].atom, tokens, graph, position)
                THEN Consumed
                ELSE pc' = "post" /\ ~is_match' /\ graph' = graph]_vars

\* The scan has just left a part below its max because a part two places
\* on matches, while the optional part in between does not.
C8_Witness ==
    /\ pc = "loop"
    /\ cur_atom_idx >= 1
    /\ cur_atom_idx + 1 < Len(parts)
    /\ cur_count = 0
    /\ position < Len(tokens)
    /\ Len(Groups[cur_atom_idx].tokens) < parts[cur_atom_idx].quantifier.max
    /\ parts[cur_atom_idx + 1].quantifier.min = 0
    /\ ~AtomIsMatch(parts[cur_atom_idx + 1].atom, tokens, graph, position)
    /\ AtomIsMatch(parts[cur_atom_idx + 2].atom, tokens, graph, position)

AllGroupTokens == Flatten([i \in 1..Len(Groups) |-> Groups[i].tokens])

\* C9: in a returned graph each group holds between its part's min and max
\* tokens, and the groups' tokens in part order are exactly the run
\* tokens[start .. start+k].
C9_GroupsAreContiguousRun ==
    Matched =>
        /\ \A i \in 1..Len(parts) :
              /\ Len(Groups[i].tokens) >= parts[i].quantifier.min
              /\ Len(Groups[i].tokens) <= parts[i].quantifier.max
        /\ AllGroupTokens = SubSeq(tokens, start + 1, start + Len(AllGroupTokens))
        /\ position = start + Len(AllGroupTokens)

\* A match with two non-empty groups around an empty one.
C9_Witness ==
    /\ Matched
    /\ Cardinality(NonEmptyGroups(Groups)) = 2
    /\ \E i \in 1..Len(Groups) :
          /\ Groups[i].tokens = <<>>
          /\ \E j, k \in NonEmptyGroups(Groups) : j < i /\ i < k

HasMandatoryPart == \E i \in 1..Len(parts) : parts[i].quantifier.min >= 1

\* C10: with a part of min >= 1 in the Composition, apply never reaches the
\* reconciliation with all groups empty: it returns None or a graph that
\* holds a token, and never aborts.
C10_NoEmptyMatch ==
    HasMandatoryPart =>
        /\ result /= "Panic"
        /\ (pc = "reconcile" /\ is_match) => NonEmptyGroups(Groups) /= {}
        /\ Matched => NonEmptyGroups(Groups) /= {}

\* A match of a Composition with a mandatory part that leaves a group empty.
C10_Witness ==
    /\ HasMandatoryPart
    /\ Matched
    /\ \E i \in 1..Len(Groups) : Groups[i].tokens = <<>>

\* Two suggestions' ranges share a character.
Overlap(a, b) ==
    \E c \in 0..(text_chars - 1) :
        a.start <= c /\ c < a.end /\ b.start <= c /\ c < b.end

Ascending(s) == \A i \in 1..(Len(s) - 1) : s[i].start <= s[i + 1].start

Count(s, x) == Cardinality({i \in 1..Len(s) : s[i] = x})

\* What the enabled rules yield, rule after rule.
EnabledYields ==
    Flatten([i \in 1..Len(rules) |-> IF rules[i].on THEN rules[i].yields ELSE <<>>])

\* The elements of s at the indices in K, in order.
Select(s, K) ==
    LET Loop[i \in 0..Len(s)] ==
            IF i = 0 THEN <<>>
            ELSE IF i \in K THEN Append(Loop[i - 1], s[i]) ELSE Loop[i - 1]
    IN Loop[Len(s)]

SuggestReturned == spc = "done" /\ tokens /= <<>>

\* C2: the list suggest returns is ascending by start and no two of its
\* ranges share a character; visiting the enabled rules' suggestions in
\* ascending-start order, a suggestion is returned iff no suggestion kept
\* before it shares a character with it.
C2_SortedNonOverlapping ==
    SuggestReturned =>
        /\ Ascending(output)
        /\ \A i, j \in 1..Len(output) : i < j => ~Overlap(output[i], output[j])
        /\ Ascending(sorted)
        /\ Len(sorted) = Len(EnabledYields)
        /\ \A i \in 1..Len(sorted) :
              Count(sorted, sorted[i]) = Count(EnabledYields, sorted[i])
        /\ \E K \in SUBSET (1..Len(sorted)) :
              /\ output = Select(sorted, K)
              /\ \A i \in 1..Len(sorted) :
                    i \in K <=> \A j \in K : j < i => ~Overlap(sorted[j], sorted[i])

\* Of two suggestions that share a character, the one that starts first is
\* returned and the other is dropped.
C2_Witness ==
    /\ SuggestReturned
    /\ Len(sorted) = 2
    /\ sorted[1].start < sorted[2].start
    /\ sorted[2].start < sorted[1].end
    /\ output = <<sorted[1]>>

\* The sequential evaluation: the rules one after the other, then the same
\* sort and the same scan.
SequentialSuggest ==
    Retain(sort_by_start(EnabledYields), Len(tokens[1].text)).kept

Patchable(t, ss) ==
    /\ \A i \in 1..Len(ss) : 0 <= ss[i].start /\ ss[i].start <= ss[i].end
                             /\ ss[i].end <= Len(t)
    /\ \A i \in 1..(Len(ss) - 1) : ss[i].end <= ss[i + 1].start

\* The text with the ranges of the first k suggestions replaced by their
\* first replacement texts, and every other character kept.
Patched(t, ss, k) ==
    LET Loop[i \in 0..k] ==
            IF i = 0 THEN <<>>
            ELSE Loop[i - 1]
                   \o SubSeq(t, (IF i = 1 THEN 0 ELSE ss[i - 1].end) + 1, ss[i].start)
                   \o ss[i].text[1]
    IN Loop[k] \o SubSeq(t, (IF k = 0 THEN 0 ELSE ss[k].end) + 1, Len(t))

\* The sum of the length changes of the first k suggestions.
Shift(ss, k) ==
    LET Loop[i \in 0..k] ==
            IF i = 0 THEN 0
            ELSE Loop[i - 1] + Len(ss[i].text[1]) - (ss[i].end - ss[i].start)
    IN Loop[k]

\* C4: for ascending, non-overlapping suggestions inside the text, correct
\* returns the text with each range replaced by the suggestion's first
\* replacement and the rest kept; after k suggestions the next one is applied
\* at its position shifted by the length changes so far.
C4_CorrectPatchesText ==
    Patchable(text, suggestions) =>
        /\ cpc /= "panic"
        /\ cpc = "loop" =>
              /\ chars = Patched(text, suggestions, next_sugg)
              /\ offset = Shift(suggestions, next_sugg)
        /\ cpc = "done" => chars = Patched(text, suggestions, Len(suggestions))

\* Two suggestions were applied; the first replaced a span by a shorter
\* text, the second replaces a character after it.
C4_Witness ==
    /\ cpc = "done"
    /\ Patchable(text, suggestions)
    /\ Len(suggestions) = 2
    /\ Len(suggestions[1].text[1]) < suggestions[1].end - suggestions[1].start
    /\ Len(suggestions[1].text[1]) > 0
    /\ suggestions[2].start < suggestions[2].end
    /\ offset < 0

====
